---- MODULE Spec2Model ----
(***************************************************************************)
(* Model of package wsdl (src/wsdl/types.go): the struct types that        *)
(* encoding/xml decodes a WSDL schema into, and the one hand-written       *)
(* decoding rule, RestrictionAttr.UnmarshalXML.                            *)
(*                                                                         *)
(* A Go string is modelled as the sequence of its pieces: ":" , " ", the   *)
(* digits and the signs are single characters, any other piece ("ref",     *)
(* "arrayType", "unbounded") is a run of letters.  Two letter runs are     *)
(* never adjacent, so two strings are equal exactly when their sequences   *)
(* are equal.  The empty string is << >>.                                  *)
(***************************************************************************)
EXTENDS Integers, Sequences, FiniteSets, TLC

\* ------------------------------------------------------------------ bounds

\* Most attributes on one generated <attribute> start element.
MaxAttrs == 3
\* Most children the reader delivers to the element being decoded.
MaxChildren == 3

\* ----------------------------------------------------------------- strings

S(x) == <<x>>

Digits == {"0", "1", "2", "3", "4", "5", "6", "7", "8", "9"}

DigitVal(c) ==
    CASE c = "0" -> 0 [] c = "1" -> 1 [] c = "2" -> 2 [] c = "3" -> 3
      [] c = "4" -> 4 [] c = "5" -> 5 [] c = "6" -> 6 [] c = "7" -> 7
      [] c = "8" -> 8 [] c = "9" -> 9

Last(s) == s[Len(s)]

MinOf(I) == CHOOSE i \in I : \A j \in I : i <= j

MaxOf(I) == CHOOSE i \in I : \A j \in I : i >= j

\* strings.Split(s, ":"): the pieces between the separators, "" included.
RECURSIVE Split(_)
Split(s) ==
    LET at == {i \in 1..Len(s) : s[i] = ":"}
    IN  IF at = {} THEN <<s>>
        ELSE <<SubSeq(s, 1, MinOf(at) - 1)>>
                 \o Split(SubSeq(s, MinOf(at) + 1, Len(s)))

\* strings.TrimSpace(s).
TrimSpace(s) ==
    LET ink == {i \in 1..Len(s) : s[i] # " "}
    IN  IF ink = {} THEN << >> ELSE SubSeq(s, MinOf(ink), MaxOf(ink))

\* The value of a run of digits, most significant first.
RECURSIVE DigitsVal(_)
DigitsVal(s) ==
    IF Len(s) = 0 THEN 0
    ELSE 10 * DigitsVal(SubSeq(s, 1, Len(s) - 1)) + DigitVal(Last(s))

\* strconv.ParseInt(s, 10, 64): an optional sign, then one digit or more.
\* (No generated value is long enough to leave the 64-bit range.)
ParseInt(s) ==
    LET signed == Len(s) > 0 /\ s[1] \in {"+", "-"}
        body   == IF signed THEN SubSeq(s, 2, Len(s)) ELSE s
        ok     == Len(body) > 0 /\ \A i \in 1..Len(body) : body[i] \in Digits
    IN  IF ~ok THEN [ok |-> FALSE, val |-> 0]
        ELSE [ok |-> TRUE,
              val |-> IF signed /\ s[1] = "-" THEN 0 - DigitsVal(body)
                      ELSE DigitsVal(body)]

\* strconv.ParseBool(s).
ParseBool(s) ==
    IF s \in {S("1"), S("t"), S("T"), S("TRUE"), S("true"), S("True")}
        THEN [ok |-> TRUE, val |-> TRUE]
    ELSE IF s \in {S("0"), S("f"), S("F"), S("FALSE"), S("false"), S("False")}
        THEN [ok |-> TRUE, val |-> FALSE]
    ELSE [ok |-> FALSE, val |-> FALSE]

\* ------------------------------------------------------------------ errors

NoError == ""
\* fmt.Errorf("No ref cound"): the spec's MissingRequiredAttribute.
ErrNoRef == "No ref cound"
\* xml.SyntaxError, "unexpected EOF": the input ends inside an open element.
ErrSyntax == "XML syntax error: unexpected EOF"
\* strconv's error, returned by encoding/xml when an attribute does not parse.
ErrParse == "strconv: invalid syntax"
\* xml.UnmarshalError: the element is not the one the XMLName tag names.
ErrName == "expected element type"
\* encoding/xml: an Unmarshaler returned before its element's end tag.
ErrNotConsumed == "UnmarshalXML did not consume entire element"

\* ------------------------------------------------------------------ tokens

XMLNameOf(space, local) == [space |-> space, local |-> local]
NoName == XMLNameOf("", << >>)

Attr(space, local, value) ==
    [name |-> XMLNameOf(space, local), value |-> value]

StartTok(name, attr) ==
    [kind |-> "start", name |-> name, attr |-> attr, data |-> << >>]
EndTok(name) ==
    [kind |-> "end", name |-> name, attr |-> << >>, data |-> << >>]
CharTok(data) ==
    [kind |-> "chars", name |-> NoName, attr |-> << >>, data |-> data]

\* The decoder: the tokens the reader has delivered and the decoder has not
\* yet read, and the number of elements open at the read position.
Decoder(toks, open) == [toks |-> toks, open |-> open]

\* Decoder.Token: the next token, or a syntax error when the input ends.
Token(d) ==
    IF Len(d.toks) = 0
        THEN [tok |-> EndTok(NoName), d |-> d, err |-> ErrSyntax]
    ELSE LET t == d.toks[1]
         IN  [tok |-> t,
              d   |-> Decoder(Tail(d.toks),
                              CASE t.kind = "start" -> d.open + 1
                                [] t.kind = "end"   -> d.open - 1
                                [] OTHER            -> d.open),
              err |-> NoError]

RECURSIVE SkipFrom(_, _)
SkipFrom(d, depth) ==
    LET r == Token(d)
    IN  IF r.err # NoError THEN [d |-> r.d, err |-> r.err]
        ELSE IF r.tok.kind = "start" THEN SkipFrom(r.d, depth + 1)
        ELSE IF r.tok.kind = "end"
            THEN IF depth = 0 THEN [d |-> r.d, err |-> NoError]
                 ELSE SkipFrom(r.d, depth - 1)
        ELSE SkipFrom(r.d, depth)

\* A Skip that returns at the first end tag it meets, nested or not.
SkipToFirstEnd(d) ==
    LET ends == {i \in 1..Len(d.toks) : d.toks[i].kind = "end"}
    IN  IF ends = {} THEN [d |-> Decoder(<< >>, d.open), err |-> ErrSyntax]
        ELSE LET n == MinOf(ends)
                 starts == {i \in 1..n : d.toks[i].kind = "start"}
             IN  [d |-> Decoder(SubSeq(d.toks, n + 1, Len(d.toks)),
                                d.open + Cardinality(starts) - 1),
                  err |-> NoError]

\* Decoder.Skip: read up to and including the end tag of the element whose
\* start tag was read last, nested elements included.
Skip(d) == SkipFrom(d, 0)

\* ------------------------------------------------- RestrictionAttr (71-107)

ZeroRestrictionAttr ==
    [XMLName |-> NoName, Ref |-> << >>, Key |-> << >>, Value |-> << >>]

\* The positions of the attributes of `start` whose local name is `local`.
AttrsNamed(start, local) ==
    {i \in 1..Len(start.attr) : start.attr[i].name.local = local}

\* A receiver that keeps what it held: only the element name is assigned.
KeepReceiver(a, start) == [a EXCEPT !.XMLName = start.name]

\* A reset that leaves the element name out.
ResetWithoutName(a, start) == ZeroRestrictionAttr

\* *a = RestrictionAttr{}; a.XMLName = start.Name
ResetReceiver(a, start) ==
    [ZeroRestrictionAttr EXCEPT !.XMLName = start.name]

\* A ref lookup that keeps the namespace prefix: the first segment, not the last.
FindRefFirstSegment(a, start) ==
    LET refs == AttrsNamed(start, S("ref"))
    IN  IF refs = {} THEN a
        ELSE LET v == start.attr[MinOf(refs)].value
             IN  [a EXCEPT !.Ref = v, !.Key = Split(v)[1]]

\* The first loop: the first attribute whose local name is "ref" gives Ref,
\* and the last piece of its value after splitting on ":" gives Key.
FindRef(a, start) ==
    LET refs == AttrsNamed(start, S("ref"))
    IN  IF refs = {} THEN a
        ELSE LET v == start.attr[MinOf(refs)].value
             IN  [a EXCEPT !.Ref = v, !.Key = Last(Split(v))]

\* A test of the key that never reports a missing ref.
RefNeverMissing(a) == FALSE

\* if len(a.Key) == 0 { return fmt.Errorf("No ref cound") }
RefMissing(a) == Len(a.Key) = 0

\* The second loop: the first attribute whose local name is Key gives Value.
FindValue(a, start) ==
    LET keys == AttrsNamed(start, a.Key)
    IN  IF keys = {} THEN a
        ELSE [a EXCEPT !.Value = start.attr[MinOf(keys)].value]

\* func (a *RestrictionAttr) UnmarshalXML(d *xml.Decoder, start xml.StartElement) error
\* The receiver after the call, the decoder after the call, the error returned.
UnmarshalXML(a, d, start) ==
    LET a1 == FindRef(ResetReceiver(a, start), start)
    IN  IF RefMissing(a1) THEN [v |-> a1, d |-> d, err |-> ErrNoRef]
        ELSE LET sk == Skip(d)
             IN  [v |-> FindValue(a1, start), d |-> sk.d, err |-> sk.err]

\* ------------------------------------------------------- the struct types

\* One field of a struct type, as its xml tag declares it.  mode: "attr" or
\* "elem"; parents: the a>b> path before the name; kind: "string", "int",
\* "bool", "slice" ([]*T) or "ptr" (*T); type: T.
FD(field, mode, parents, name, kind, type) ==
    [field |-> field, mode |-> mode, parents |-> parents, name |-> name,
     kind |-> kind, type |-> type]

AttrFD(field, name, kind) == FD(field, "attr", << >>, S(name), kind, "")
ElemFD(field, name, kind, type) == FD(field, "elem", << >>, S(name), kind, type)

RestrictionFields ==
    << AttrFD("Base", "base", "string"),
       ElemFD("Enum", "enumeration", "slice", "Enum"),
       ElemFD("Attribute", "attribute", "ptr", "RestrictionAttr") >>

EnumFields == << AttrFD("Value", "value", "string") >>

ComplexTypeFields ==
    << AttrFD("Name", "name", "string"),
       AttrFD("Abstract", "abstract", "bool"),
       FD("Doc", "elem", <<S("annotation")>>, S("documentation"), "string", ""),
       FD("AllElements", "elem", <<S("all")>>, S("element"), "slice", "Element"),
       ElemFD("ComplexContent", "complexContent", "ptr", "ComplexContent"),
       ElemFD("Sequence", "sequence", "ptr", "Sequence") >>

ComplexContentFields ==
    << ElemFD("Extension", "extension", "ptr", "Extension"),
       ElemFD("Restriction", "restriction", "ptr", "Restriction") >>

ExtensionFields ==
    << AttrFD("Base", "base", "string"),
       ElemFD("Sequence", "sequence", "ptr", "Sequence") >>

SequenceFields ==
    << ElemFD("ComplexTypes", "complexType", "slice", "ComplexType"),
       ElemFD("Elements", "element", "slice", "Element"),
       ElemFD("Any", "any", "slice", "AnyElement") >>

ElementFields ==
    << AttrFD("Name", "name", "string"),
       AttrFD("Ref", "ref", "string"),
       AttrFD("Type", "type", "string"),
       AttrFD("Min", "minOccurs", "int"),
       AttrFD("Max", "maxOccurs", "string"),
       AttrFD("Nillable", "nillable", "bool"),
       ElemFD("ComplexType", "complexType", "ptr", "ComplexType") >>

AnyElementFields ==
    << AttrFD("Min", "minOccurs", "int"),
       AttrFD("Max", "maxOccurs", "string") >>

Fields(T) ==
    CASE T = "Restriction"    -> RestrictionFields
      [] T = "Enum"           -> EnumFields
      [] T = "ComplexType"    -> ComplexTypeFields
      [] T = "ComplexContent" -> ComplexContentFields
      [] T = "Extension"      -> ExtensionFields
      [] T = "Sequence"       -> SequenceFields
      [] T = "Element"        -> ElementFields
      [] T = "AnyElement"     -> AnyElementFields

\* The element name the type's XMLName field is tagged with.
XMLNameTag(T) ==
    CASE T = "Restriction"    -> S("restriction")
      [] T = "Enum"           -> S("enumeration")
      [] T = "ComplexType"    -> S("complexType")
      [] T = "ComplexContent" -> S("complexContent")
      [] T = "Extension"      -> S("extension")
      [] T = "Sequence"       -> S("sequence")
      [] T = "Element"        -> S("element")
      [] T = "AnyElement"     -> S("any")

ZeroOfKind(kind) ==
    CASE kind = "int" -> 0 [] kind = "bool" -> FALSE [] OTHER -> << >>

\* The zero value of a struct type: a nil pointer and an empty slice are << >>,
\* a pointer that is set is <<v>>.
Zero(T) ==
    IF T = "RestrictionAttr" THEN ZeroRestrictionAttr
    ELSE [f \in {"XMLName"} \cup {Fields(T)[i].field : i \in 1..Len(Fields(T))} |->
            IF f = "XMLName" THEN NoName
            ELSE LET i == CHOOSE i \in 1..Len(Fields(T)) : Fields(T)[i].field = f
                 IN  ZeroOfKind(Fields(T)[i].kind)]

\* ------------------------------------------ encoding/xml's decoding of them

\* A copyValue that stores the zero value for a text it cannot parse.
CopyValueLenient(kind, src) ==
    CASE kind = "int" ->
            [ok |-> TRUE, val |-> ParseInt(TrimSpace(src)).val]
      [] kind = "bool" ->
            [ok |-> TRUE, val |-> ParseBool(TrimSpace(src)).val]
      [] OTHER -> [ok |-> TRUE, val |-> src]

\* copyValue: the text of an attribute or element into a field of this kind.
\* An empty text gives the zero value; otherwise whitespace is trimmed and
\* the rest must parse.
CopyValue(kind, src) ==
    CASE kind = "int" ->
            IF Len(src) = 0 THEN [ok |-> TRUE, val |-> 0]
            ELSE ParseInt(TrimSpace(src))
      [] kind = "bool" ->
            IF Len(src) = 0 THEN [ok |-> TRUE, val |-> FALSE]
            ELSE ParseBool(TrimSpace(src))
      [] OTHER -> [ok |-> TRUE, val |-> src]

\* Assign attribute `a` to every attr field of T named like it, fields from j on.
RECURSIVE AssignAttr(_, _, _, _)
AssignAttr(T, v, a, j) ==
    IF j > Len(Fields(T)) THEN [v |-> v, err |-> NoError]
    ELSE LET fd == Fields(T)[j]
         IN  IF fd.mode = "attr" /\ fd.name = a.name.local
                 THEN LET c == CopyValue(fd.kind, a.value)
                      IN  IF ~c.ok THEN [v |-> v, err |-> ErrParse]
                          ELSE AssignAttr(T, [v EXCEPT ![fd.field] = c.val], a, j + 1)
             ELSE AssignAttr(T, v, a, j + 1)

\* "Assign attributes": the attributes of the start tag in document order,
\* from position i on; the first one that does not parse ends the decode.
RECURSIVE AssignAttrs(_, _, _, _)
AssignAttrs(T, v, attrs, i) ==
    IF i > Len(attrs) THEN [v |-> v, err |-> NoError]
    ELSE LET r == AssignAttr(T, v, attrs[i], 1)
         IN  IF r.err # NoError THEN r
             ELSE AssignAttrs(T, r.v, attrs, i + 1)

\* A string field bound to an element: the element's character data, its
\* child elements skipped.
RECURSIVE CharData(_, _)
CharData(d, data) ==
    LET r == Token(d)
    IN  IF r.err # NoError THEN [v |-> data, d |-> r.d, err |-> r.err]
        ELSE IF r.tok.kind = "start"
            THEN LET sk == Skip(r.d)
                 IN  IF sk.err # NoError THEN [v |-> data, d |-> sk.d, err |-> sk.err]
                     ELSE CharData(sk.d, data)
        ELSE IF r.tok.kind = "end" THEN [v |-> data, d |-> r.d, err |-> NoError]
        ELSE CharData(r.d, data \o r.tok.data)

\* unmarshalInterface: hand the element to the type's UnmarshalXML, and then
\* require that it has read the element to its end tag.  d is the decoder
\* after the start tag.
UnmarshalInterface(a, start, d) ==
    LET r == UnmarshalXML(a, d, start)
    IN  IF r.err # NoError THEN r
        ELSE IF r.d.open # d.open - 1
            THEN [v |-> r.v, d |-> r.d, err |-> ErrNotConsumed]
        ELSE r

\* The fields of T that `start` may belong to below the path `parents`: a
\* perfect match (the field's own element) or a prefix of a field's path.
PathPerfect(fd, parents, start) ==
    /\ fd.mode = "elem"
    /\ Len(fd.parents) = Len(parents)
    /\ fd.parents = parents
    /\ fd.name = start.name.local

PathPrefix(fd, parents, start) ==
    /\ fd.mode = "elem"
    /\ Len(fd.parents) > Len(parents)
    /\ SubSeq(fd.parents, 1, Len(parents)) = parents
    /\ fd.parents[Len(parents) + 1] = start.name.local

PathMatches(T, parents, start) ==
    {i \in 1..Len(Fields(T)) :
        \/ PathPerfect(Fields(T)[i], parents, start)
        \/ PathPrefix(Fields(T)[i], parents, start)}

RECURSIVE UnmarshalStruct(_, _, _, _)
RECURSIVE UnmarshalField(_, _, _, _)
RECURSIVE UnmarshalPath(_, _, _, _, _)
RECURSIVE PathLoop(_, _, _, _)
RECURSIVE StructLoop(_, _, _)

\* Decoder.unmarshal on a value of struct type T (or on the Unmarshaler).
UnmarshalValue(T, v, start, d) ==
    IF T = "RestrictionAttr" THEN UnmarshalInterface(v, start, d)
    ELSE UnmarshalStruct(T, v, start, d)

\* A slice that puts the new element first.
SliceGrownInFront(fv, r) ==
    [v   |-> IF r.err # NoError THEN fv ELSE <<r.v>> \o fv,
     d   |-> r.d,
     err |-> r.err]

\* "Slice of element values. Grow slice.": the slice fv after the decode r
\* of its new last element; v.SetLen(n) drops the element when r failed.
SliceGrown(fv, r) ==
    [v   |-> IF r.err # NoError THEN fv ELSE Append(fv, r.v),
     d   |-> r.d,
     err |-> r.err]

\* A pointer field after the decode r of the value it points to: the pointer
\* was set before the decode and stays set when r failed.
PointerSet(r) == [v |-> <<r.v>>, d |-> r.d, err |-> r.err]

\* A string field after its element's character data r was collected.
StringSet(fd, fv, r) ==
    [v   |-> IF r.err # NoError THEN fv ELSE CopyValue(fd.kind, r.v).val,
     d   |-> r.d,
     err |-> r.err]

\* Decoder.unmarshal on the field fd, whose value is fv: a slice grows by one
\* element, a nil pointer is set to a new value and a set pointer is decoded
\* into, a string takes the character data.
UnmarshalField(fd, fv, start, d) ==
    CASE fd.kind = "slice" ->
            SliceGrown(fv, UnmarshalValue(fd.type, Zero(fd.type), start, d))
      [] fd.kind = "ptr" ->
            PointerSet(UnmarshalValue(fd.type,
                                      IF fv = << >> THEN Zero(fd.type) ELSE fv[1],
                                      start, d))
      [] OTHER -> StringSet(fd, fv, CharData(d, << >>))

\* The struct sv with the decode r of its field stored; consumed.
FieldStored(sv, field, r) ==
    [v |-> [sv EXCEPT ![field] = r.v], d |-> r.d, err |-> r.err, consumed |-> TRUE]

Consumed(r) == [v |-> r.v, d |-> r.d, err |-> r.err, consumed |-> TRUE]

\* unmarshalPath: decode `start` into the field of sv it names, directly or
\* through a path of parent elements; consumed says whether a field took it.
\* The fields are tried in declaration order.
UnmarshalPath(T, sv, parents, start, d) ==
    IF PathMatches(T, parents, start) = {}
        THEN [v |-> sv, d |-> d, err |-> NoError, consumed |-> FALSE]
    ELSE LET fd == Fields(T)[MinOf(PathMatches(T, parents, start))]
         IN  IF PathPerfect(fd, parents, start)
                 THEN FieldStored(sv, fd.field,
                                  UnmarshalField(fd, sv[fd.field], start, d))
             ELSE Consumed(PathLoop(T, sv, SubSeq(fd.parents, 1, Len(parents) + 1), d))

\* After a Skip sk: its error, or the next round of the loop.
PathLoopSkipped(T, sv, parents, sk) ==
    IF sk.err # NoError THEN [v |-> sv, d |-> sk.d, err |-> sk.err]
    ELSE PathLoop(T, sv, parents, sk.d)

\* After unmarshalPath's answer p for a child: an error ends the decode, a
\* child no field took is skipped with its subtree.
PathLoopChild(T, parents, p) ==
    IF p.err # NoError THEN [v |-> p.v, d |-> p.d, err |-> p.err]
    ELSE IF p.consumed THEN PathLoop(T, p.v, parents, p.d)
    ELSE PathLoopSkipped(T, p.v, parents, Skip(p.d))

\* The children of a path element, r being the token just read.
PathLoopToken(T, sv, parents, r) ==
    IF r.err # NoError THEN [v |-> sv, d |-> r.d, err |-> r.err]
    ELSE IF r.tok.kind = "start"
        THEN PathLoopChild(T, parents, UnmarshalPath(T, sv, parents, r.tok, r.d))
    ELSE IF r.tok.kind = "end" THEN [v |-> sv, d |-> r.d, err |-> NoError]
    ELSE PathLoop(T, sv, parents, r.d)

PathLoop(T, sv, parents, d) == PathLoopToken(T, sv, parents, Token(d))

LoopSkipped(sv, sk) == [v |-> sv, d |-> sk.d, err |-> sk.err, done |-> FALSE]

\* "if !consumed { if err := d.Skip() ... }"
LoopChild(p) ==
    IF p.err # NoError \/ p.consumed
        THEN [v |-> p.v, d |-> p.d, err |-> p.err, done |-> FALSE]
    ELSE LoopSkipped(p.v, Skip(p.d))

LoopToken(T, sv, r) ==
    IF r.err # NoError THEN [v |-> sv, d |-> r.d, err |-> r.err, done |-> FALSE]
    ELSE IF r.tok.kind = "start"
        THEN LoopChild(UnmarshalPath(T, sv, << >>, r.tok, r.d))
    ELSE IF r.tok.kind = "end"
        THEN [v |-> sv, d |-> r.d, err |-> NoError, done |-> TRUE]
    ELSE [v |-> sv, d |-> r.d, err |-> NoError, done |-> FALSE]

\* One round of "Find end element. Process sub-elements along the way": a
\* start tag goes to the field that names it or is skipped with its subtree,
\* the end tag ends the element, character data is dropped (no struct here
\* has a chardata field).
LoopStep(T, sv, d) == LoopToken(T, sv, Token(d))

StructLoopNext(T, r) ==
    IF r.err # NoError \/ r.done THEN [v |-> r.v, d |-> r.d, err |-> r.err]
    ELSE StructLoop(T, r.v, r.d)

StructLoop(T, sv, d) == StructLoopNext(T, LoopStep(T, sv, d))

\* "Validate and assign element name", then "Assign attributes": what the
\* decode of a struct does with the start tag before it reads any child.
StructHead(T, v, start) ==
    IF XMLNameTag(T) # start.name.local THEN [v |-> v, err |-> ErrName]
    ELSE AssignAttrs(T, [v EXCEPT !.XMLName = start.name], start.attr, 1)

StructBody(T, h, d) ==
    IF h.err # NoError THEN [v |-> h.v, d |-> d, err |-> h.err]
    ELSE StructLoop(T, h.v, d)

\* Decoder.unmarshal on a struct of type T: the start tag, then the children.
UnmarshalStruct(T, v, start, d) == StructBody(T, StructHead(T, v, start), d)

\* ------------------------------------------------------------- the input

\* A piece of the document: an element with its attributes and children, or
\* character data.
Elem(space, local, attr, kids) ==
    [kind |-> "elem", name |-> XMLNameOf(space, S(local)), attr |-> attr,
     kids |-> kids, data |-> << >>]
Chars(data) ==
    [kind |-> "chars", name |-> NoName, attr |-> << >>, kids |-> << >>,
     data |-> data]

StartOf(n) == StartTok(n.name, n.attr)

\* The tokens Decoder.Token yields for a piece, and for a run of pieces.
RECURSIVE Flatten(_)
RECURSIVE FlattenAll(_)
Flatten(n) ==
    IF n.kind = "chars" THEN <<CharTok(n.data)>>
    ELSE <<StartOf(n)>> \o FlattenAll(n.kids) \o <<EndTok(n.name)>>
FlattenAll(ns) ==
    IF Len(ns) = 0 THEN << >> ELSE Flatten(ns[1]) \o FlattenAll(Tail(ns))

\* Sequences over `pool` of length at most n.
SeqsUpTo(pool, n) == UNION {[1..m -> pool] : m \in 0..n}

\* The attributes an <attribute> element is generated with.
AttrPool ==
    { Attr("", S("ref"), <<"t", ":", "k">>),
      Attr("", S("ref"), << >>),
      Attr("", S("ref"), <<"t", ":">>),
      Attr("", S("ref"), S("ref")),
      Attr("x", S("ref"), S("k")),
      Attr("", S("k"), S("v")),
      Attr("p", S("k"), <<"w", ":", "z">>) }

\* Attribute lists as XML allows them: no name twice.
AttrLists ==
    {al \in SeqsUpTo(AttrPool, MaxAttrs) :
        \A i, j \in 1..Len(al) : i # j => al[i].name # al[j].name}

\* What an <attribute> element may contain: nothing, or character data and
\* another <attribute> that has a child of its own.
AttrBodies ==
    { << >>,
      << Chars(S("c")),
         Elem("xs", "attribute", <<Attr("", S("ref"), S("k")), Attr("", S("k"), S("n"))>>,
              <<Elem("xs", "annotation", << >>, << >>)>>) >> }

AttributeNodes ==
    {Elem("xs", "attribute", al, body) : al \in AttrLists, body \in AttrBodies}

\* What the reader delivers below a <sequence>.
SequenceNodes ==
    { Elem("xs", "element", <<Attr("", S("name"), S("a"))>>, << >>),
      Elem("xs", "element",
           <<Attr("", S("name"), S("b")), Attr("", S("minOccurs"), <<" ", "2">>),
             Attr("", S("maxOccurs"), S("unbounded")), Attr("", S("form"), S("q"))>>,
           << >>),
      Elem("xs", "element",
           <<Attr("", S("name"), S("c")), Attr("", S("minOccurs"), S("x"))>>, << >>),
      Elem("xs", "element",
           <<Attr("", S("nillable"), S("true")), Attr("", S("name"), S("d"))>>,
           << Elem("xs", "complexType", <<Attr("", S("abstract"), S("maybe"))>>, << >>) >>),
      Elem("xs", "element", <<Attr("", S("name"), S("e"))>>,
           << Elem("xs", "complexType", << >>,
                   << Elem("xs", "attribute", <<Attr("", S("name"), S("n"))>>, << >>),
                      Elem("xs", "sequence", << >>,
                           << Elem("xs", "element", <<Attr("", S("name"), S("f"))>>, << >>) >>) >>) >>),
      Elem("xs", "any", <<Attr("", S("minOccurs"), << >>), Attr("", S("maxOccurs"), S("5"))>>, << >>),
      Elem("xs", "complexType", <<Attr("", S("name"), S("g")), Attr("", S("abstract"), S("1"))>>,
           << Elem("xs", "annotation", << >>,
                   << Elem("xs", "appinfo", << >>, <<Elem("xs", "documentation", << >>, <<Chars(S("no"))>>)>>),
                      Elem("xs", "documentation", << >>, <<Chars(S("doc"))>>) >>) >>),
      Elem("xs", "choice", << >>,
           << Elem("xs", "element", <<Attr("", S("name"), S("z"))>>, << >>),
              Elem("xs", "any", << >>, << >>) >>),
      Chars(S(" ")) }

\* What the reader delivers below a <complexType>.
ComplexTypeNodes ==
    { Elem("xs", "sequence", << >>,
           << Elem("xs", "element", <<Attr("", S("name"), S("a"))>>, << >>),
              Elem("xs", "group", <<Attr("", S("ref"), S("g"))>>, <<Elem("xs", "any", << >>, << >>)>>),
              Elem("xs", "any", <<Attr("", S("minOccurs"), S("1"))>>, << >>) >>),
      Elem("xs", "sequence", << >>,
           << Elem("xs", "element", <<Attr("", S("name"), S("b")), Attr("", S("nillable"), S("F"))>>, << >>) >>),
      Elem("xs", "all", << >>,
           << Elem("xs", "element", <<Attr("", S("name"), S("c")), Attr("", S("minOccurs"), <<"-", "1">>)>>, << >>),
              Elem("xs", "any", << >>, << >>) >>),
      Elem("xs", "annotation", << >>,
           << Elem("xs", "documentation", << >>,
                   <<Chars(S("doc")), Elem("xs", "b", << >>, <<Chars(S("bold"))>>)>>) >>),
      Elem("xs", "complexContent", << >>,
           << Elem("xs", "extension", <<Attr("", S("base"), <<"t", ":", "b">>)>>,
                   << Elem("xs", "attribute", << >>, << >>),
                      Elem("xs", "sequence", << >>,
                           <<Elem("xs", "element", <<Attr("", S("name"), S("d")), Attr("", S("minOccurs"), S("many"))>>, << >>)>>) >>) >>),
      Elem("xs", "complexContent", << >>,
           << Elem("xs", "restriction", <<Attr("", S("base"), S("b"))>>,
                   << Elem("xs", "enumeration", <<Attr("", S("value"), S("v"))>>, << >>),
                      Elem("xs", "attribute",
                           <<Attr("", S("ref"), <<"t", ":", "k">>), Attr("", S("k"), S("v"))>>,
                           <<Elem("xs", "annotation", << >>, << >>)>>),
                      Elem("xs", "sequence", << >>, << >>) >>) >>),
      Elem("xs", "complexContent", << >>,
           << Elem("xs", "restriction", << >>,
                   << Elem("xs", "attribute", <<Attr("", S("name"), S("n"))>>, << >>) >>) >>),
      Elem("xs", "attribute", <<Attr("", S("name"), S("n"))>>,
           <<Elem("xs", "sequence", << >>, <<Elem("xs", "element", << >>, << >>)>>)>>),
      Elem("xs", "element", <<Attr("", S("name"), S("e"))>>, << >>) }

\* The struct types a decode is started on, the children generated below
\* each, and the start tags generated for each.
RootTypes == {"Sequence", "ComplexType"}

ChildNodes(T) ==
    CASE T = "Sequence"    -> SequenceNodes
      [] T = "ComplexType" -> ComplexTypeNodes
      [] T = "Restriction" -> AttributeNodes

RootStarts(T) ==
    CASE T = "Sequence" ->
            { StartTok(XMLNameOf("xs", S("sequence")), << >>),
              StartTok(XMLNameOf("xs", S("choice")), << >>) }
      [] T = "ComplexType" ->
            { StartTok(XMLNameOf("xs", S("complexType")),
                       <<Attr("", S("name"), S("r")), Attr("", S("mixed"), S("true"))>>),
              StartTok(XMLNameOf("xs", S("complexType")),
                       <<Attr("", S("name"), S("r")), Attr("", S("abstract"), S("yes"))>>) }
      [] T = "Restriction" ->
            { StartTok(XMLNameOf("xs", S("restriction")), <<Attr("", S("base"), S("b"))>>) }

\* ------------------------------------------------------------------- state

VARIABLES
    rootType,   \* the struct type the element is decoded into
    rootStart,  \* the element's start tag, already read
    phase,      \* "head": start tag read; "loop": reading children;
                \* "done": end tag read, no error; "failed": error returned
    sv,         \* the struct value, as built so far
    d,          \* the decoder
    err,        \* the error the decode returned
    eof,        \* the reader has nothing more to deliver
    input,      \* the children delivered so far (kept by SpecDecode only)
    intact,     \* nothing delivered so far was cut short
    fed,        \* the last delivery: the piece, the tokens of it that were
                \* delivered, whether the element's end tag followed it
    before,     \* sv as the last step found it
    last        \* the last step: "init", "head", "feed", or what the loop
                \* read: "child", "chars", "end", "eof"

vars == <<rootType, rootStart, phase, sv, d, err, eof, input, intact, fed, before, last>>

NoFeed == [node |-> Chars(<< >>), cut |-> 0, closing |-> FALSE]

InitOn(types) ==
    /\ rootType \in types
    /\ rootStart \in RootStarts(rootType)
    /\ phase = "head"
    /\ sv = Zero(rootType)
    /\ d = Decoder(<< >>, 1)
    /\ err = NoError
    /\ eof = FALSE
    /\ input = << >>
    /\ intact = TRUE
    /\ fed = NoFeed
    /\ before = Zero(rootType)
    /\ last = "init"

\* Decoder.unmarshal on the root, up to its first child: the element name is
\* validated and assigned, the attributes are assigned.
Begin ==
    /\ phase = "head"
    /\ LET h == StructHead(rootType, sv, rootStart)
       IN  /\ sv' = h.v
           /\ err' = h.err
           /\ phase' = IF h.err # NoError THEN "failed" ELSE "loop"
    /\ before' = sv
    /\ last' = "head"
    /\ UNCHANGED <<rootType, rootStart, d, eof, input, intact, fed>>

\* The reader delivers the next child of the root: the first `cut` tokens of
\* `node`, and after a whole node possibly the root's end tag.  A cut node,
\* and the end tag, are the last thing it delivers.
Deliver(node, cut, closing, keep) ==
    /\ phase = "loop"
    /\ Len(d.toks) = 0
    /\ ~eof
    /\ LET all == Flatten(node)
       IN  /\ cut \in 1..Len(all)
           /\ closing => cut = Len(all)
           /\ d' = Decoder(SubSeq(all, 1, cut)
                             \o (IF closing THEN <<EndTok(rootStart.name)>> ELSE << >>),
                           d.open)
           /\ eof' = (closing \/ cut < Len(all))
           /\ intact' = (cut = Len(all))
    /\ fed' = [node |-> node, cut |-> cut, closing |-> closing]
    /\ input' = IF keep THEN Append(input, node) ELSE input
    /\ before' = sv
    /\ last' = "feed"
    /\ UNCHANGED <<rootType, rootStart, phase, sv, err>>

\* The reader delivers the root's end tag, or ends.
DeliverEnd(closing) ==
    /\ phase = "loop"
    /\ Len(d.toks) = 0
    /\ ~eof
    /\ d' = Decoder(IF closing THEN <<EndTok(rootStart.name)>> ELSE << >>, d.open)
    /\ eof' = TRUE
    /\ intact' = closing
    /\ fed' = NoFeed
    /\ before' = sv
    /\ last' = "feed"
    /\ UNCHANGED <<rootType, rootStart, phase, sv, err, input>>

\* Feed of the decode of a <restriction>: <attribute> children, any number,
\* each whole or cut right after its start tag.
FeedAttribute ==
    \E node \in AttributeNodes, closing \in BOOLEAN :
        \E cut \in {1, Len(Flatten(node))} : Deliver(node, cut, closing, FALSE)

\* Feed of the decode of a <sequence> or <complexType>: at most MaxChildren
\* children, all remembered.
FeedChild ==
    /\ Len(input) < MaxChildren
    /\ \E node \in ChildNodes(rootType), closing \in BOOLEAN :
        \E cut \in 1..Len(Flatten(node)) : Deliver(node, cut, closing, TRUE)

FeedEnd == \E closing \in BOOLEAN : DeliverEnd(closing)

Stepped(r) ==
    /\ sv' = r.v
    /\ d' = r.d
    /\ err' = r.err
    /\ phase' = IF r.err # NoError THEN "failed"
                ELSE IF r.done THEN "done" ELSE "loop"

\* One round of the root's loop over its children (Decoder.unmarshal, "Find
\* end element"): the whole decode of the next child, custom UnmarshalXML
\* included, or the end of the element, or the error that ends the decode.
DecodeChild ==
    /\ phase = "loop"
    /\ Len(d.toks) > 0 \/ eof
    /\ Stepped(LoopStep(rootType, sv, d))
    /\ before' = sv
    /\ last' = IF Len(d.toks) = 0 THEN "eof"
               ELSE IF d.toks[1].kind = "start" THEN "child"
               ELSE d.toks[1].kind
    /\ UNCHANGED <<rootType, rootStart, eof, input, intact, fed>>

\* The decode of a <restriction> and its <attribute> children.
Init == InitOn({"Restriction"})
Next == Begin \/ FeedAttribute \/ FeedEnd \/ DecodeChild
Spec == Init /\ [][Next]_vars

\* The decode of a <sequence> or a <complexType> and its children.
InitDecode == InitOn(RootTypes)
NextDecode == Begin \/ FeedChild \/ FeedEnd \/ DecodeChild
SpecDecode == InitDecode /\ [][NextDecode]_vars

\* -------------------------------------------------------------- properties

\* The tokens of the last delivery, whether it was whole, what followed it.
Delivered ==
    SubSeq(Flatten(fed.node), 1, fed.cut)
        \o (IF fed.closing THEN <<EndTok(rootStart.name)>> ELSE << >>)
Whole == fed.cut = Len(Flatten(fed.node))
After == IF fed.closing THEN <<EndTok(rootStart.name)>> ELSE << >>

\* The last step handed an <attribute> child of a <restriction> to
\* RestrictionAttr.UnmarshalXML: callStart is its start element, recv the
\* RestrictionAttr the Restriction points to.
InCall == rootType = "Restriction" /\ last = "child"
callStart == StartOf(fed.node)
recv == sv.Attribute[1]

HasRef(start) == \E i \in 1..Len(start.attr) : start.attr[i].name.local = S("ref")
RefValue(start) ==
    start.attr[MinOf({i \in 1..Len(start.attr) : start.attr[i].name.local = S("ref")})].value

NoColon(s) == \A i \in 1..Len(s) : s[i] # ":"

\* k is what follows the last ":" of r, or all of r when r has none.
IsLastSegment(k, r) ==
    /\ Len(k) <= Len(r)
    /\ k = SubSeq(r, Len(r) - Len(k) + 1, Len(r))
    /\ NoColon(k)
    /\ Len(k) = Len(r) \/ r[Len(r) - Len(k)] = ":"

LastSegment(r) == CHOOSE k \in {SubSeq(r, i, Len(r)) : i \in 1..Len(r) + 1} : IsLastSegment(k, r)

\* The first attribute of `start` with this local name, if there is one.
FirstNamed(start, local) ==
    LET m == {i \in 1..Len(start.attr) : start.attr[i].name.local = local}
    IN  IF m = {} THEN << >> ELSE <<start.attr[MinOf(m)].value>>

\* What the spec's algorithm derives from a start element alone.
Resolution(start) ==
    LET ref == IF HasRef(start) THEN RefValue(start) ELSE << >>
        key == LastSegment(ref)
        val == FirstNamed(start, key)
    IN  [XMLName |-> start.name, Ref |-> ref, Key |-> key,
         Value |-> IF key # << >> /\ val # << >> THEN val[1] ELSE << >>]

C3_KeyIsLastSegment ==
    (InCall /\ err = NoError) =>
        /\ HasRef(callStart)
        /\ Len(sv.Attribute) = 1
        /\ recv.Ref = RefValue(callStart)
        /\ IsLastSegment(recv.Key, recv.Ref)
        /\ recv.Key # << >>

C3_Witness ==
    /\ InCall /\ err = NoError
    /\ recv.Ref = <<"t", ":", "k">> /\ recv.Key = S("k")
    /\ Len(callStart.attr) = 3 /\ callStart.attr[1].name.local = S("k")

\* C4 (as claimed): for a start element that has a ref, Value is the value of
\* the first attribute whose local name is Key, and when there is none Value
\* is empty and no error is raised.
C4_ValueFromKeyAttribute ==
    (InCall /\ HasRef(callStart) /\ Whole) =>
        LET val == FirstNamed(callStart, LastSegment(RefValue(callStart)))
        IN  /\ Len(sv.Attribute) = 1
            /\ val # << >> => recv.Value = val[1]
            /\ val = << >> => (recv.Value = << >> /\ err = NoError)

C7_RefFoundSubtreeConsumed ==
    (InCall /\ HasRef(callStart) /\ Whole) =>
        /\ err = NoError
        /\ phase = "loop"
        /\ d = Decoder(After, 1)

\* C9: what a call leaves in the RestrictionAttr depends on the start
\* element alone: after every call, also one into a RestrictionAttr an
\* earlier <attribute> filled, it is the resolution of this start element.
C9_ResultFromStartAlone ==
    InCall => (Len(sv.Attribute) = 1 /\ recv = Resolution(callStart))

C9_Witness ==
    /\ InCall /\ err = NoError
    /\ before.Attribute # << >>
    /\ before.Attribute[1].Value # << >>
    /\ before.Attribute[1].Key # recv.Key
    /\ recv.Value = << >>

\* C10 (as claimed): a start element that has an attribute with local name
\* "ref", whatever its value, never gets the "No ref" error.
C10_RefPresentNeverMissing ==
    (InCall /\ HasRef(callStart)) => err # ErrNoRef

\* The whole decode, in one call, of the root element with these children;
\* closed: the root's end tag follows them.
DecodeOf(kids, closed) ==
    UnmarshalStruct(rootType, Zero(rootType), rootStart,
                    Decoder(FlattenAll(kids)
                              \o (IF closed THEN <<EndTok(rootStart.name)>> ELSE << >>),
                            1))

SameOutcome(r) == r.v = sv /\ r.err = err

\* The reader delivered everything whole and the decode has ended.
Ended == phase \in {"done", "failed"} /\ intact
Closed == eof /\ intact

\* The three kinds of child a Sequence has a field for.
Kinds == {S("complexType"), S("element"), S("any")}
KindOf(n) == IF n.kind = "elem" /\ n.name.local \in Kinds THEN n.name.local ELSE << >>
OnlyKinds(kids) == \A i \in 1..Len(kids) : KindOf(kids[i]) # << >>

RECURSIVE OfKind(_, _)
OfKind(kids, k) ==
    IF Len(kids) = 0 THEN << >>
    ELSE (IF KindOf(kids[1]) = k THEN <<kids[1]>> ELSE << >>) \o OfKind(Tail(kids), k)

SameKinds(a, b) == \A k \in Kinds : OfKind(a, k) = OfKind(b, k)

Reorderings(kids) ==
    {[i \in 1..Len(kids) |-> kids[p[i]]] : p \in Permutations(1..Len(kids))}

\* The value of the attribute of piece n with this local name, "" without one.
AttrOf(n, local) ==
    LET val == FirstNamed(StartOf(n), S(local))
    IN  IF val = << >> THEN << >> ELSE val[1]

\* C2 (as claimed): a decoded Sequence tells the interleavings of its
\* complexType, element and any children apart: the same children in another
\* interleaving decode to another value.
C2_InterleavingKept ==
    (phase = "done" /\ rootType = "Sequence" /\ OnlyKinds(input)) =>
        \A alt \in Reorderings(input) :
            (alt # input /\ SameKinds(alt, input)) => ~SameOutcome(DecodeOf(alt, TRUE))

\* What the three slices of Sequence do keep: each kind's children in source
\* order; every interleaving of the same three lists decodes to the same
\* value.
C2_OrderWithinKindOnly ==
    (phase = "done" /\ rootType = "Sequence") =>
        /\ [i \in 1..Len(sv.Elements) |-> sv.Elements[i].Name]
             = [i \in 1..Len(OfKind(input, S("element"))) |->
                    AttrOf(OfKind(input, S("element"))[i], "name")]
        /\ [i \in 1..Len(sv.ComplexTypes) |-> sv.ComplexTypes[i].Name]
             = [i \in 1..Len(OfKind(input, S("complexType"))) |->
                    AttrOf(OfKind(input, S("complexType"))[i], "name")]
        /\ [i \in 1..Len(sv.Any) |-> sv.Any[i].Max]
             = [i \in 1..Len(OfKind(input, S("any"))) |->
                    AttrOf(OfKind(input, S("any"))[i], "maxOccurs")]
        /\ \A alt \in Reorderings(input) :
               SameKinds(alt, input) => SameOutcome(DecodeOf(alt, TRUE))

C2_Witness ==
    /\ phase = "done" /\ rootType = "Sequence" /\ Len(input) = 3
    /\ KindOf(input[1]) = S("element")
    /\ KindOf(input[2]) = S("any")
    /\ KindOf(input[3]) = S("element")
    /\ Len(sv.Elements) = 2 /\ Len(sv.Any) = 1
    /\ sv.Elements[1].Name # sv.Elements[2].Name

\* A text copyValue cannot store in a field of this kind: not empty and, with
\* the spaces around it dropped, no integer or no boolean.
IsInteger(t) ==
    /\ Len(t) > 0
    /\ \A i \in 2..Len(t) : t[i] \in Digits
    /\ t[1] \in Digits \/ (t[1] \in {"+", "-"} /\ Len(t) > 1)

IsBoolean(t) ==
    t \in {S(b) : b \in {"1", "t", "T", "TRUE", "true", "True",
                         "0", "f", "F", "FALSE", "false", "False"}}

Unparsable(kind, text) ==
    /\ text # << >>
    /\ \/ kind = "int" /\ ~IsInteger(TrimSpace(text))
       \/ kind = "bool" /\ ~IsBoolean(TrimSpace(text))

\* Some attribute of the list is bound to a field of T and cannot be stored.
BadAttrs(T, attrs) ==
    \E i \in 1..Len(attrs), j \in 1..Len(Fields(T)) :
        /\ Fields(T)[j].mode = "attr"
        /\ Fields(T)[j].name = attrs[i].name.local
        /\ Unparsable(Fields(T)[j].kind, attrs[i].value)

\* Somewhere in these children of a T (below its path `parents`), at an
\* element the model decodes, an attribute cannot be stored, or an
\* <attribute> of a restriction has no ref that gives a key.
RECURSIVE BadKids(_, _, _)
RECURSIVE BadNode(_, _)
BadKid(T, parents, n) ==
    /\ n.kind = "elem"
    /\ PathMatches(T, parents, StartOf(n)) # {}
    /\ LET fd == Fields(T)[MinOf(PathMatches(T, parents, StartOf(n)))]
       IN  IF PathPerfect(fd, parents, StartOf(n))
               THEN fd.kind \in {"slice", "ptr"} /\ BadNode(fd.type, n)
           ELSE BadKids(T, SubSeq(fd.parents, 1, Len(parents) + 1), n.kids)

BadKids(T, parents, kids) == \E i \in 1..Len(kids) : BadKid(T, parents, kids[i])

BadNode(T, n) ==
    IF T = "RestrictionAttr" THEN Resolution(StartOf(n)).Key = << >>
    ELSE \/ XMLNameTag(T) # n.name.local
         \/ BadAttrs(T, n.attr)
         \/ BadKids(T, << >>, n.kids)

BadInput ==
    \/ XMLNameTag(rootType) # rootStart.name.local
    \/ BadAttrs(rootType, rootStart.attr)
    \/ BadKids(rootType, << >>, input)

RemoveAt(kids, i) == SubSeq(kids, 1, i - 1) \o SubSeq(kids, i + 1, Len(kids))
WithKids(kids, i, ks) == [kids EXCEPT ![i].kids = ks]

\* Every way to remove one unrecognized child element, at any element the
\* model decodes, from these children of a T (below its path `parents`).
RECURSIVE Removals(_, _, _)
RemovalsIn(T, parents, kids, i) ==
    IF kids[i].kind # "elem" THEN {}
    ELSE IF PathMatches(T, parents, StartOf(kids[i])) = {} THEN {RemoveAt(kids, i)}
    ELSE LET fd == Fields(T)[MinOf(PathMatches(T, parents, StartOf(kids[i])))]
         IN  IF ~PathPerfect(fd, parents, StartOf(kids[i]))
                 THEN {WithKids(kids, i, ks) :
                          ks \in Removals(T, SubSeq(fd.parents, 1, Len(parents) + 1),
                                          kids[i].kids)}
             ELSE IF fd.kind \in {"slice", "ptr"} /\ fd.type # "RestrictionAttr"
                 THEN {WithKids(kids, i, ks) : ks \in Removals(fd.type, << >>, kids[i].kids)}
             ELSE {WithKids(kids, i, RemoveAt(kids[i].kids, j)) :
                      j \in {j \in 1..Len(kids[i].kids) : kids[i].kids[j].kind = "elem"}}

Removals(T, parents, kids) ==
    UNION {RemovalsIn(T, parents, kids, i) : i \in 1..Len(kids)}

\* C8: a child element no field names is skipped with its subtree and leaves
\* no trace: the decode, in steps, of the delivered children ends with the
\* value and error the decode of them in one call ends with, and so does the
\* decode of the same children with any one unrecognized child removed.
C8_SkippedChildLeavesNoTrace ==
    Ended =>
        /\ SameOutcome(DecodeOf(input, Closed))
        /\ \A alt \in Removals(rootType, << >>, input) :
               SameOutcome(DecodeOf(alt, Closed))

C8_Witness ==
    /\ Ended /\ phase = "done" /\ rootType = "Sequence" /\ Len(input) = 3
    /\ KindOf(input[1]) = S("element")
    /\ input[2].kind = "elem" /\ input[2].name.local = S("choice")
    /\ KindOf(input[3]) = S("any")
    /\ RemoveAt(input, 2) \in Removals(rootType, << >>, input)
    /\ Len(sv.Elements) = 1 /\ Len(sv.Any) = 1

====
